---- MODULE Spec2Model ----
(***************************************************************************)
(* A model of dazzle: the grid-capture game (src/src/game.rs), the game    *)
(* the server embeds (src/src/server.rs, struct Game) and the server       *)
(* engine (src/src/server.rs, struct Server).                              *)
(*                                                                         *)
(* Option<T> is a sequence of length <= 1: None is << >>, Some(v) is <<v>>.*)
(* A HashMap is a function on its key set.  A Point is a record [x, y].    *)
(* The grid Vec<Vec<Option<u64>>> is a function y -> (x -> Option), so     *)
(* grid[y][x] reads as in the source, with 0-based indices.                *)
(***************************************************************************)
EXTENDS Integers, Sequences, FiniteSets, TLC

VARIABLES
    game,      \* Option<Game>: the game under test / Server.game
    panicked,  \* TRUE once a panic has unwound the calling thread
    last,      \* the last call made and what it returned
    called,    \* ids for which action() was called since the last tick()/new()
    accepted,  \* ids whose action() returned Ok since the last tick()/new()
    prior,     \* ids whose action() returned Ok between the last two tick()s
    nops,      \* number of action()/tick() calls made so far
    ticks,     \* number of tick() calls made so far
    cap,       \* a stamped grid and what the capture phase of tick() made of it
    col,       \* a game and what tick() made of it up to the collection loop
    server,    \* struct Server, with the contents of its two channels
    pc,        \* where the engine thread stands in Server::main
    readers,   \* ids of the connections whose reader thread is running
    failed,    \* ids of the connections whose transport has failed with a read error
    nmails,    \* number of messages the reader threads have passed on so far
    sent,      \* the responses the engine's last step wrote to sockets
    handled    \* the last message Server::main took from incoming_messages

gameVars == <<game, panicked, last, called, accepted, prior, nops, ticks>>
serverVars == <<server, pc, readers, failed, nmails, sent, handled>>
vars == <<gameVars, cap, col, serverVars>>

-----------------------------------------------------------------------------
(* Bounds of the model *)

\* most players handed to Game::new
MaxPlayers == 3
\* largest total_turns handed to Game::new
MaxTurns == 1
\* most action()/tick() calls made on one game
MaxOps == 3
\* tick() is called only among the first MaxTickOps calls made on a game
MaxTickOps == 2
\* most tokens one tick() spawns
MaxSpawn == 1
\* number of players (colours) of the grids the capture phase is run on
CapturePlayers == 2
\* most connections the listener thread accepts
MaxConnections == 2
\* most messages the reader threads pass on
MaxMails == 2
\* largest game_start_ticks of a ServerConfig
MaxStartTicks == 1

(* Program constants *)

\* game.rs: let rows = 8 + num_players / 2
BaseRows == 8
\* server.rs: let rows = 6 + (num_players as f64).sqrt().round() as usize
ServerBaseRows == 6

\* TLC's integers are 32 bits wide, so the u64 modulus 2^64 is scaled down
\* to 2^30; every other value of the model is far below it.
U64 == 2^30

-----------------------------------------------------------------------------
(* common.rs *)

None == << >>
Some(v) == <<v>>

Point(px, py) == [x |-> px, y |-> py]

Player(pname, ppoints, pposition, pid) ==
    [name |-> pname, points |-> ppoints, position |-> pposition, id |-> pid]

Directions == {"Up", "Down", "Left", "Right"}
Nothing == <<"Nothing">>
Move(d) == <<"Move", d>>
ClientCommands == {Nothing} \cup {Move(d) : d \in Directions}

Ok == "Ok"
AlreadyMoved == "Already moved"
MoveRefused == "Moved out of grid or in a cell already taken"

-----------------------------------------------------------------------------
(* Helpers for Rust's containers *)

\* all iteration orders a HashMap with key set S can have
RECURSIVE Orders(_)
Orders(S) ==
    IF S = {} THEN { << >> }
    ELSE UNION { { <<k>> \o o : o \in Orders(S \ {k}) } : k \in S }

\* Range::new(lo, hi).ind_sample(rng) yields any value of lo..hi-1; the
\* model draws the two ends of the range.
IndSample(lo, hi) == { v \in lo..(hi - 1) : v = lo \/ v = hi - 1 }

\* a -= b on u64 in a release build
WrappingSub(a, b) == (a - b + U64) % U64

-----------------------------------------------------------------------------
(* game.rs: struct Game *)

Rows(grid) == Cardinality(DOMAIN grid)
Cols(grid) == Cardinality(DOMAIN grid[0])

\* vec![vec![None; cols]; rows]
EmptyGrid(rows, cols) == [y \in 0..(rows - 1) |-> [x \in 0..(cols - 1) |-> None]]

\* Game::new: let rows = 8 + num_players / 2; let cols = rows * 2 + 1
Game_rows(num_players) == BaseRows + num_players \div 2
Game_cols(rows) == rows * 2 + 1

\* Game::new; pos[id] is the pair of samples (gen_col, gen_row) drawn for
\* the player stored under key id
Game_new(players, total_turns, game_id, pos) ==
    LET num_players == Cardinality(DOMAIN players)
        rows == Game_rows(num_players)
        cols == Game_cols(rows)
    IN  [ grid       |-> EmptyGrid(rows, cols),
          tokens     |-> {},
          turns_left |-> total_turns,
          gen_col    |-> cols,
          gen_row    |-> rows,
          game_id    |-> game_id,
          players    |-> [id \in DOMAIN players |->
                             [players[id] EXCEPT !.position = pos[id]]],
          moved      |-> [id \in {players[k].id : k \in DOMAIN players} |-> FALSE] ]

\* the points Point { x: gen_col.ind_sample(rng), y: gen_row.ind_sample(rng) }
\* the model draws: both samples at the low end of their range, or both at
\* the high end (two opposite corners of the grid)
SamplePoints(gen_col, gen_row) ==
    { pt \in { Point(px, py) : px \in IndSample(0, gen_col), py \in IndSample(0, gen_row) } :
        (pt.x = 0) <=> (pt.y = 0) }

Game_finished(g) == g.turns_left = 0

(* Game::tick, first loop: every player stamps its cell, in the map's
   iteration order *)
RECURSIVE Stamp(_, _, _)
Stamp(grid, players, order) ==
    IF order = << >> THEN grid
    ELSE LET player == players[Head(order)]
         IN  Stamp([grid EXCEPT ![player.position.y][player.position.x] = Some(player.id)],
                   players, Tail(order))

\* the test that aborts a flood: p lies on the border of the grid
OnEdge(p, rows, cols) ==
    p.x + 1 >= cols \/ p.x - 1 < 0 \/ p.y + 1 >= rows \/ p.y - 1 < 0

(* Game::tick, one iteration of "while !queue.is_empty()" of a flood.  s
   holds the loop's locals: queue, to_fill, colors, valid, with the tick's
   visited set and the number of insertions into a to_fill set so far.  The
   break leaves valid = FALSE. *)
FloodStep(grid, rows, cols, s) ==
    LET p == Head(s.queue)
        popped == [s EXCEPT !.queue = Tail(@)]
    IN  IF grid[p.y][p.x] # None
          THEN [popped EXCEPT !.colors = @ \cup {grid[p.y][p.x][1]}]
        ELSE IF p \in s.to_fill
          THEN popped
        ELSE IF OnEdge(p, rows, cols)
          THEN [popped EXCEPT !.to_fill = @ \cup {p},
                              !.visited = @ \cup {p},
                              !.added = @ + 1,
                              !.valid = FALSE]
          ELSE [popped EXCEPT !.to_fill = @ \cup {p},
                              !.visited = @ \cup {p},
                              !.added = @ + 1,
                              !.queue = @ \o
                                  << Point(p.x + 1, p.y), Point(p.x - 1, p.y),
                                     Point(p.x, p.y + 1), Point(p.x, p.y - 1) >>]

\* the while loop of a flood has ended: the queue is empty or the break was taken
FloodDone(s) == s.queue = << >> \/ ~s.valid

\* TLC evaluates recursion on the Java stack: the while loop is run in
\* chunks of StepsPerChunk iterations to keep the recursion shallow
StepsPerChunk == 4 * 6

RECURSIVE FloodRun(_, _, _, _, _)
FloodRun(grid, rows, cols, s, n) ==
    IF n = 0 \/ FloodDone(s) THEN s
    ELSE FloodRun(grid, rows, cols, FloodStep(grid, rows, cols, s), n - 1)

(* Game::tick, the whole "while !queue.is_empty()" loop of a flood *)
RECURSIVE FloodLoop(_, _, _, _)
FloodLoop(grid, rows, cols, s) ==
    IF FloodDone(s) THEN s
    ELSE FloodLoop(grid, rows, cols, FloodRun(grid, rows, cols, s, StepsPerChunk))

\* for p in to_fill.drain() { self.grid[p.y][p.x] = Some(color) }
Paint(grid, to_fill, color) ==
    [y \in DOMAIN grid |->
        [x \in DOMAIN grid[y] |->
            IF Point(x, y) \in to_fill THEN Some(color) ELSE grid[y][x]]]

\* faulty variant of FloodPaints: "colors.len() >= 1"
FloodPaints_AnyColours(f) == f.valid /\ Cardinality(f.colors) >= 1

\* whether a finished flood paints its region
FloodPaints(f) == f.valid /\ Cardinality(f.colors) = 1

(* Game::tick, the body of "for x in 0..cols" for one cell.  c holds the
   grid, the tick's visited set and the number of insertions into a to_fill
   set made so far. *)
CaptureCell(c, x, y, rows, cols) ==
    IF Point(x, y) \in c.visited \/ c.grid[y][x] # None
      THEN c
      ELSE
        LET f == FloodLoop(c.grid, rows, cols,
                     [ queue   |-> << Point(x, y) >>,
                       to_fill |-> {},
                       colors  |-> {},
                       valid   |-> TRUE,
                       visited |-> c.visited,
                       added   |-> c.added ])
            color == CHOOSE k \in f.colors : TRUE
        IN  [ grid    |-> IF FloodPaints(f)
                            THEN Paint(c.grid, f.to_fill, color)
                            ELSE c.grid,
              visited |-> f.visited,
              added   |-> f.added ]

\* Game::tick, the loop "for x in 0..cols" of row y, from column x on
RECURSIVE CaptureRow(_, _, _)
CaptureRow(c, x, y) ==
    IF x >= Cols(c.grid) THEN c
    ELSE CaptureRow(CaptureCell(c, x, y, Rows(c.grid), Cols(c.grid)), x + 1, y)

\* Game::tick, the loop "for y in 0..rows", from row y on
RECURSIVE CaptureRows(_, _)
CaptureRows(c, y) ==
    IF y >= Rows(c.grid) THEN c
    ELSE CaptureRows(CaptureRow(c, 0, y), y + 1)

\* the capture phase of Game::tick on a stamped grid
Capture(grid) == CaptureRows([grid |-> grid, visited |-> {}, added |-> 0], 0)

\* the cells of the grid that hold colour id
Coloured(grid, id) ==
    { pt \in { Point(x, y) : x \in DOMAIN grid[0], y \in DOMAIN grid } :
         grid[pt.y][pt.x] = Some(id) }

\* faulty variant of CollectToken: the cells counted are not erased
CollectToken_KeepsCells(g, key) ==
    LET player == g.players[key]
        count == Cardinality(Coloured(g.grid, player.id))
    IN  [g EXCEPT !.tokens = @ \ {player.position},
                  !.players[key].points = (@ + count) % U64]

\* the body of "if self.tokens.contains(&player.position)"
CollectToken(g, key) ==
    LET player == g.players[key]
        mine == Coloured(g.grid, player.id)
        count == Cardinality(mine)
    IN  [g EXCEPT !.tokens = @ \ {player.position},
                  !.grid = [y \in DOMAIN g.grid |->
                              [x \in DOMAIN g.grid[y] |->
                                  IF Point(x, y) \in mine THEN None ELSE g.grid[y][x]]],
                  !.players[key].points = (@ + count) % U64]

\* faulty variant of CollectLoop: the loop without "moved[player.id] = false"
RECURSIVE CollectLoop_NoReset(_, _)
CollectLoop_NoReset(g, order) ==
    IF order = << >> THEN g
    ELSE
        LET player == g.players[Head(order)]
        IN  CollectLoop_NoReset(IF player.position \in g.tokens
                                  THEN CollectToken(g, Head(order))
                                  ELSE g,
                                Tail(order))

(* Game::tick, the loop for player in self.players.values_mut() *)
RECURSIVE CollectLoop(_, _)
CollectLoop(g, order) ==
    IF order = << >> THEN g
    ELSE
        LET player == g.players[Head(order)]
            reset == [g EXCEPT !.moved[player.id] = FALSE]
        IN  CollectLoop(IF player.position \in reset.tokens
                          THEN CollectToken(reset, Head(order))
                          ELSE reset,
                        Tail(order))

\* 0.025 * log2(N) > 0: the spawn loop of game.rs can draw a sample below cap
SpawnPossible(num_players) == num_players >= 2

\* faulty variant of SpawnSets: the ranges include their upper bound
SpawnSets_PastEdge(g) ==
    IF SpawnPossible(Cardinality(DOMAIN g.players))
      THEN { sp \in SUBSET (SamplePoints(g.gen_col, g.gen_row) \cup {Point(g.gen_col, g.gen_row)}) :
                Cardinality(sp) <= MaxSpawn }
      ELSE { {} }

\* the sets of cells the spawn loop of game.rs can insert
SpawnSets(g) ==
    IF SpawnPossible(Cardinality(DOMAIN g.players))
      THEN { sp \in SUBSET SamplePoints(g.gen_col, g.gen_row) : Cardinality(sp) <= MaxSpawn }
      ELSE { {} }

(* Game::tick, from "self.turns_left -= 1" to the end, after the loops have
   left game g.  At turns_left = 0 the subtraction overflows: a debug build
   panics there, a release build wraps.  The set of outcomes, each the game
   and whether the call panicked. *)
TickEnd(g, spawn) ==
    LET wrapped == [game |-> [g EXCEPT !.turns_left = WrappingSub(@, 1),
                                       !.tokens = @ \cup spawn],
                    panic |-> FALSE]
    IN  IF g.turns_left = 0
          THEN { [game |-> g, panic |-> TRUE], wrapped }
          ELSE { wrapped }

(* Game::tick: the outcomes of one call on game g, over the iteration orders
   of self.players (one order per call, the same in both loops over the
   players) and the sets of cells in spawns that the spawn loop can insert.
   The capture phase is evaluated once per stamped grid. *)
TickOutcomes(g, spawns) ==
    LET orders == Orders(DOMAIN g.players)
    IN  UNION {
          LET captured == [g EXCEPT !.grid = Capture(stamped).grid]
          IN  UNION { UNION { TickEnd(CollectLoop(captured, order), spawn) :
                                 spawn \in spawns } :
                      order \in { o \in orders : Stamp(g.grid, g.players, o) = stamped } }
          : stamped \in { Stamp(g.grid, g.players, o) : o \in orders } }

Game_tick(g) == TickOutcomes(g, SpawnSets(g))

(* Game::action, the four guarded arms of "match direction" of game.rs:
   the cell the move leads to, or None when the guard on the bound fails *)
Game_target(position, direction, rows, cols) ==
    CASE direction = "Down"  /\ position.y + 1 < rows  -> Some(Point(position.x, position.y + 1))
      [] direction = "Up"    /\ position.y - 1 >= 0    -> Some(Point(position.x, position.y - 1))
      [] direction = "Right" /\ position.x + 1 < cols  -> Some(Point(position.x + 1, position.y))
      [] direction = "Left"  /\ position.x - 1 >= 0    -> Some(Point(position.x - 1, position.y))
      [] OTHER -> None

\* Game::action, the test on self.moved.get(&id)
MayMove(g, id) == IF id \in DOMAIN g.moved THEN ~g.moved[id] ELSE FALSE

\* faulty variant of MarkMoved: moved[id] is left as it was
MarkMoved_Forgotten(g, id) == g

\* Game::action: *self.moved.get_mut(&id).unwrap() = true
MarkMoved(g, id) == [g EXCEPT !.moved[id] = TRUE]

\* Game::action: the HashSet positions, every player's position
Positions(g) == { g.players[k].position : k \in DOMAIN g.players }

\* faulty variant of MoveOutcome: the guards without "!positions.contains(..)"
MoveOutcome_NoOccupancyTest(marked, id, to) ==
    IF to # None
      THEN [game |-> [marked EXCEPT !.players[id].position = to[1]],
            res |-> Ok, panic |-> FALSE]
      ELSE [game |-> [marked EXCEPT !.moved[id] = FALSE],
            res |-> MoveRefused, panic |-> FALSE]

\* faulty variant of MoveOutcome: the default arm without "moved[id] = false"
MoveOutcome_NoRevert(marked, id, to) ==
    IF to # None /\ to[1] \notin Positions(marked)
      THEN [game |-> [marked EXCEPT !.players[id].position = to[1]],
            res |-> Ok, panic |-> FALSE]
      ELSE [game |-> marked, res |-> MoveRefused, panic |-> FALSE]

\* faulty variant of MoveOutcome: an accepted move leaves the player where it is
MoveOutcome_KeepsPosition(marked, id, to) ==
    IF to # None /\ to[1] \notin Positions(marked)
      THEN [game |-> marked, res |-> Ok, panic |-> FALSE]
      ELSE [game |-> [marked EXCEPT !.moved[id] = FALSE],
            res |-> MoveRefused, panic |-> FALSE]

(* Game::action, the outcome of a guarded arm of "match direction" whose
   bound test left the target cell to (None: the test failed), or of the
   default arm.  marked is the game after moved[id] was set. *)
MoveOutcome(marked, id, to) ==
    IF to # None /\ to[1] \notin Positions(marked)
      THEN [game |-> [marked EXCEPT !.players[id].position = to[1]],
            res |-> Ok, panic |-> FALSE]
      ELSE [game |-> [marked EXCEPT !.moved[id] = FALSE],
            res |-> MoveRefused, panic |-> FALSE]

(* Game::action of game.rs: the game after the call, the Result returned
   (Ok or the error string) and whether the call panicked
   (self.players.get_mut(&id).unwrap() on a missing player) *)
Game_action(g, id, command) ==
    IF ~MayMove(g, id)
      THEN [game |-> g, res |-> AlreadyMoved, panic |-> FALSE]
    ELSE IF id \notin DOMAIN g.players
      THEN [game |-> MarkMoved(g, id), res |-> "panic", panic |-> TRUE]
    ELSE IF command = Nothing
      THEN [game |-> MarkMoved(g, id), res |-> Ok, panic |-> FALSE]
    ELSE MoveOutcome(MarkMoved(g, id), id,
                     Game_target(g.players[id].position, command[2],
                                 Rows(g.grid), Cols(g.grid)))

-----------------------------------------------------------------------------
(* The three parts of the state at rest *)

NoCall == [op |-> "none", id |-> 0, command |-> Nothing, res |-> Ok]

\* no game of game.rs is under test
GameIdle ==
    /\ game = None
    /\ panicked = FALSE
    /\ last = NoCall
    /\ called = {}
    /\ accepted = {}
    /\ prior = {}
    /\ nops = 0
    /\ ticks = 0

CaptureIdle == cap = [phase |-> "none"]

CollectIdle == col = [phase |-> "none"]

\* no message was taken from incoming_messages yet; n alternates between 0
\* and 1 with every message taken
NoMessage == [n |-> 0, message |-> << >>]

\* no server is running
ServerIdle ==
    /\ server = << >>
    /\ pc = "none"
    /\ readers = {}
    /\ failed = {}
    /\ nmails = 0
    /\ sent = << >>
    /\ handled = NoMessage
-----------------------------------------------------------------------------
(* The capture phase of Game::tick as a function of the stamped grid *)

\* the cells around (1, 1) and (2, 1) whose colour is drawn; every other cell
\* of the grid is empty
Window ==
    { Point(1, 1), Point(2, 1), Point(1, 0), Point(2, 0),
      Point(0, 1), Point(3, 1), Point(1, 2), Point(2, 2) }

\* the grid of a game of CapturePlayers players that holds colouring f of the
\* window
WindowGrid(f) ==
    LET rows == Game_rows(CapturePlayers)
    IN  [y \in 0..(rows - 1) |->
           [x \in 0..(Game_cols(rows) - 1) |->
               IF Point(x, y) \in Window THEN f[Point(x, y)] ELSE None]]

\* the grids the first loop of tick() hands to the capture phase: a stamped
\* grid holds the colour of at least one player
StampedGrids ==
    { WindowGrid(f) :
        f \in { h \in [Window -> {None} \cup { Some(c) : c \in 1..CapturePlayers }] :
                  \E w \in Window : h[w] # None } }

CaptureInit ==
    /\ GameIdle /\ CollectIdle /\ ServerIdle
    /\ cap \in { [phase |-> "stamped", grid |-> g] : g \in StampedGrids }

\* Game::tick from "let mut visited" to the end of "for y in 0..rows"
CapturePhase ==
    /\ cap.phase = "stamped"
    /\ LET c == Capture(cap.grid)
       IN  cap' = [phase |-> "captured", stamped |-> cap.grid, grid |-> c.grid,
                   visited |-> c.visited, added |-> c.added]
    /\ UNCHANGED <<gameVars, col, serverVars>>

CaptureNext == CapturePhase

SpecCapture == CaptureInit /\ [][CaptureNext]_vars

-----------------------------------------------------------------------------
(* Game::tick up to the end of the collection loop, on games whose grid is
   coloured around (1, 1) *)

\* the four neighbours of (1, 1), whose colour is drawn; (1, 1) and every
\* other cell are empty
CollectWindow == { Point(0, 1), Point(2, 1), Point(1, 0), Point(1, 2) }

\* the cells a player stands on and a token lies on
CollectSpots == { Point(1, 0), Point(3, 1) }

\* the games of CapturePlayers players the tick is run on: player 1 has no
\* points, the others have some
CollectGames ==
    LET ids == 1..CapturePlayers
        rows == Game_rows(CapturePlayers)
        cols == Game_cols(rows)
    IN  { [ grid       |-> [y \in 0..(rows - 1) |->
                              [x \in 0..(cols - 1) |->
                                  IF Point(x, y) \in CollectWindow THEN f[Point(x, y)] ELSE None]],
            tokens     |-> tokens,
            turns_left |-> 1,
            gen_col    |-> cols,
            gen_row    |-> rows,
            game_id    |-> 0,
            players    |-> [id \in ids |-> Player(<<"p", id>>, 3 * (id - 1), pos[id], id)],
            moved      |-> [id \in ids |-> FALSE] ] :
          f \in [CollectWindow -> {None} \cup { Some(c) : c \in ids }],
          pos \in [ids -> CollectSpots],
          tokens \in SUBSET CollectSpots }

CollectInit ==
    /\ GameIdle /\ CaptureIdle /\ ServerIdle
    /\ col \in { [phase |-> "ready", game |-> g] : g \in CollectGames }

\* Game::tick from its first line to the end of "for player in
\* self.players.values_mut()"; mid is the game as the collection loop finds it
CollectPhase ==
    /\ col.phase = "ready"
    /\ \E order \in Orders(DOMAIN col.game.players) :
          LET stamped == Stamp(col.game.grid, col.game.players, order)
              mid == [col.game EXCEPT !.grid = Capture(stamped).grid]
          IN  col' = [phase |-> "collected", order |-> order, mid |-> mid,
                      game |-> CollectLoop(mid, order)]
    /\ UNCHANGED <<gameVars, cap, serverVars>>

CollectNext == CollectPhase

SpecCollect == CollectInit /\ [][CollectNext]_vars

-----------------------------------------------------------------------------
(* server.rs: the Game the server embeds.  Its tick() is that of game.rs
   line for line up to the spawn loop; its constructor and its action()
   differ. *)

\* (num_players as f64).sqrt().round(): the r with r - 1/2 <= sqrt(n) < r + 1/2
RoundSqrt(n) ==
    CHOOSE r \in 0..n :
        /\ 4 * n < (2 * r + 1) * (2 * r + 1)
        /\ (r = 0 \/ (2 * r - 1) * (2 * r - 1) <= 4 * n)

\* server.rs Game::new: let rows = 6 + sqrt(num_players).round(); let cols = rows * 2
ServerGame_rows(num_players) == ServerBaseRows + RoundSqrt(num_players)
ServerGame_cols(rows) == rows * 2

\* server.rs Game::new
ServerGame_new(players, total_turns, game_id, pos) ==
    LET num_players == Cardinality(DOMAIN players)
        rows == ServerGame_rows(num_players)
        cols == ServerGame_cols(rows)
    IN  [ grid       |-> EmptyGrid(rows, cols),
          tokens     |-> {},
          turns_left |-> total_turns,
          gen_col    |-> cols,
          gen_row    |-> rows,
          game_id    |-> game_id,
          players    |-> [id \in DOMAIN players |->
                             [players[id] EXCEPT !.position = pos[id]]],
          moved      |-> [id \in {players[k].id : k \in DOMAIN players} |-> FALSE] ]

\* server.rs Game::tick: while self.rng.next_f64() < 0.1 { count += 1 }
ServerSpawnSets(g) ==
    { sp \in SUBSET SamplePoints(g.gen_col, g.gen_row) : Cardinality(sp) <= MaxSpawn }

\* server.rs Game::tick
ServerGame_tick(g) == TickOutcomes(g, ServerSpawnSets(g))

(* server.rs Game::action, the four guarded arms of "match direction": Up
   adds 1 to y, Down subtracts 1 *)
ServerGame_target(position, direction, rows, cols) ==
    CASE direction = "Up"    /\ position.y + 1 < rows  -> Some(Point(position.x, position.y + 1))
      [] direction = "Down"  /\ position.y - 1 >= 0    -> Some(Point(position.x, position.y - 1))
      [] direction = "Right" /\ position.x + 1 < cols  -> Some(Point(position.x + 1, position.y))
      [] direction = "Left"  /\ position.x - 1 >= 0    -> Some(Point(position.x - 1, position.y))
      [] OTHER -> None

\* server.rs Game::action
ServerGame_action(g, id, command) ==
    IF ~MayMove(g, id)
      THEN [game |-> g, res |-> AlreadyMoved, panic |-> FALSE]
    ELSE IF id \notin DOMAIN g.players
      THEN [game |-> MarkMoved(g, id), res |-> "panic", panic |-> TRUE]
    ELSE IF command = Nothing
      THEN [game |-> MarkMoved(g, id), res |-> Ok, panic |-> FALSE]
    ELSE MoveOutcome(MarkMoved(g, id), id,
                     ServerGame_target(g.players[id].position, command[2],
                                       Rows(g.grid), Cols(g.grid)))

-----------------------------------------------------------------------------
(* common.rs: what travels between client and server *)

PlayerInfo(pname) == [name |-> pname]
ClientRole_Viewer == <<"Viewer">>
ClientRole_Player(info) == <<"Player", info>>
HandShake(role) == <<"HandShake", role>>
Command(command) == <<"Command", command>>
\* a frame that is no text, or text that is no ClientMessage
Garbage == <<"Garbage">>

ServerResponse_Ok == <<"Ok">>
ServerResponse_Error(s) == <<"Error", s>>

(* Player names are sequences of characters *)
NameBob == <<"b", "o", "b">>
\* what dazzle.rs sends: read_line() keeps the line's newline
NameBobNewline == <<"b", "o", "b", "\n">>
NameInnerSpace == <<"a", " ", "b">>
Names == {NameBob, NameBobNewline, NameInnerSpace}

\* the messages a client sends
ClientMessages ==
    { HandShake(ClientRole_Viewer), Command(Nothing), Garbage }
        \cup { HandShake(ClientRole_Player(PlayerInfo(n))) : n \in Names }

-----------------------------------------------------------------------------
(* chasher.rs: player_hash is used by server.rs and is not in the source
   tree; it is modelled after the specification's hasher, a deterministic
   function of the name's bytes *)

ByteOf(ch) ==
    CASE ch = "a" -> 97 [] ch = "b" -> 98 [] ch = "o" -> 111
      [] ch = " " -> 32 [] ch = "\n" -> 10 [] ch = "\t" -> 9 [] ch = "\r" -> 13

RECURSIVE HashBytes(_, _)
HashBytes(h, bytes) ==
    IF bytes = << >> THEN h
    ELSE HashBytes(((h % 2^25) * 31 + ByteOf(Head(bytes))) % U64, Tail(bytes))

player_hash(info) == HashBytes(7, info.name)

-----------------------------------------------------------------------------
(* server.rs: struct Server *)

ConnectionType_Viewer == <<"Viewer">>
ConnectionType_Player(pid) == <<"Player", pid>>
ConnectionType_Unknown == <<"Unknown">>

Mail(id, msg) == <<"Mail", id, msg>>
Disconnected(id) == <<"Disconnected", id>>

\* map.insert(k, v)
Insert(map, k, v) == [j \in DOMAIN map \cup {k} |-> IF j = k THEN v ELSE map[j]]
\* map.remove(&k)
Remove(map, k) == [j \in DOMAIN map \ {k} |-> map[j]]
EmptyMap == [j \in {} |-> 0]

\* Server::new; incoming_connections counts the WebSockets waiting in the channel
Server_new(config) ==
    [ connections           |-> EmptyMap,
      incoming_connections  |-> 0,
      incoming_messages     |-> << >>,
      seed                  |-> 0,
      game_id               |-> 0,
      queue                 |-> EmptyMap,
      game_start_ticks      |-> config.game_start_ticks,
      game_turns            |-> config.game_turns,
      game_start_ticks_left |-> config.game_turns,
      game                  |-> None ]

(* The handlers below work on e = [server, sent, panic]: the Server, the
   responses written so far by the running step and whether it panicked;
   each yields the set of outcomes of the call. *)

(* Server::send_data.  write_message() returns Err(ConnectionClosed), and
   Disconnected(id) is sent to the engine's own channel, or it returns
   anything else, which changes no state. *)
send_data(e, id, value) ==
    IF id \in DOMAIN e.server.connections
      THEN LET written == [e EXCEPT !.sent = Append(@, [to |-> id, value |-> value])]
           IN  { written,
                 [written EXCEPT !.server.incoming_messages = Append(@, Disconnected(id))] }
      ELSE { e }

\* faulty variant of handle_accept: a duplicate player id replaces the queue's entry
handle_accept_Overwrites(e, id, role, not_interactive) ==
    IF role = ClientRole_Viewer
      THEN IF id \notin DOMAIN e.server.connections THEN { e }
           ELSE LET viewer == [e EXCEPT !.server.connections[id] = ConnectionType_Viewer]
                IN  IF ~not_interactive THEN send_data(viewer, id, ServerResponse_Ok)
                    ELSE { viewer }
      ELSE LET user_game_id == player_hash(role[2])
           IN  IF id \notin DOMAIN e.server.connections THEN { e }
               ELSE send_data(
                      [e EXCEPT !.server.connections[id] = ConnectionType_Player(user_game_id),
                                !.server.queue = Insert(@, user_game_id,
                                    Player(role[2].name, 0, Point(0, 0), user_game_id)),
                                !.server.game_start_ticks_left =
                                    IF e.server.game = None
                                      THEN e.server.game_start_ticks ELSE @],
                      id, ServerResponse_Ok)

\* faulty variant of handle_accept: an accepted player leaves the countdown as it is
handle_accept_NoReset(e, id, role, not_interactive) ==
    IF role = ClientRole_Viewer
      THEN IF id \notin DOMAIN e.server.connections THEN { e }
           ELSE LET viewer == [e EXCEPT !.server.connections[id] = ConnectionType_Viewer]
                IN  IF ~not_interactive THEN send_data(viewer, id, ServerResponse_Ok)
                    ELSE { viewer }
      ELSE LET user_game_id == player_hash(role[2])
           IN  IF user_game_id \in DOMAIN e.server.queue
                 THEN IF ~not_interactive
                        THEN send_data(e, id, ServerResponse_Error("Username already taken"))
                        ELSE { e }
               ELSE IF id \notin DOMAIN e.server.connections THEN { e }
               ELSE send_data(
                      [e EXCEPT !.server.connections[id] = ConnectionType_Player(user_game_id),
                                !.server.queue = Insert(@, user_game_id,
                                    Player(role[2].name, 0, Point(0, 0), user_game_id))],
                      id, ServerResponse_Ok)

\* faulty variant of handle_accept: the player is queued before the connection
\* is looked up
handle_accept_QueuesFirst(e, id, role, not_interactive) ==
    IF role = ClientRole_Viewer
      THEN IF id \notin DOMAIN e.server.connections THEN { e }
           ELSE LET viewer == [e EXCEPT !.server.connections[id] = ConnectionType_Viewer]
                IN  IF ~not_interactive THEN send_data(viewer, id, ServerResponse_Ok)
                    ELSE { viewer }
      ELSE LET user_game_id == player_hash(role[2])
               queued == [e EXCEPT !.server.queue = Insert(@, user_game_id,
                                       Player(role[2].name, 0, Point(0, 0), user_game_id))]
           IN  IF user_game_id \in DOMAIN e.server.queue
                 THEN IF ~not_interactive
                        THEN send_data(e, id, ServerResponse_Error("Username already taken"))
                        ELSE { e }
               ELSE IF id \notin DOMAIN e.server.connections THEN { queued }
               ELSE send_data(
                      [queued EXCEPT !.server.connections[id] = ConnectionType_Player(user_game_id),
                                     !.server.game_start_ticks_left =
                                         IF e.server.game = None
                                           THEN e.server.game_start_ticks ELSE @],
                      id, ServerResponse_Ok)

\* Server::handle_accept
handle_accept(e, id, role, not_interactive) ==
    IF role = ClientRole_Viewer
      THEN IF id \notin DOMAIN e.server.connections THEN { e }
           ELSE LET viewer == [e EXCEPT !.server.connections[id] = ConnectionType_Viewer]
                IN  IF ~not_interactive THEN send_data(viewer, id, ServerResponse_Ok)
                    ELSE { viewer }
      ELSE LET user_game_id == player_hash(role[2])
           IN  IF user_game_id \in DOMAIN e.server.queue
                 THEN IF ~not_interactive
                        THEN send_data(e, id, ServerResponse_Error("Username already taken"))
                        ELSE { e }
               ELSE IF id \notin DOMAIN e.server.connections THEN { e }
               ELSE send_data(
                      [e EXCEPT !.server.connections[id] = ConnectionType_Player(user_game_id),
                                !.server.queue = Insert(@, user_game_id,
                                    Player(role[2].name, 0, Point(0, 0), user_game_id)),
                                !.server.game_start_ticks_left =
                                    IF e.server.game = None
                                      THEN e.server.game_start_ticks ELSE @],
                      id, ServerResponse_Ok)

\* faulty variant of handle_command: the role is looked at before the game
handle_command_RoleFirst(e, id, command) ==
    IF id \notin DOMAIN e.server.connections THEN { e }
    ELSE IF e.server.connections[id][1] # "Player"
      THEN send_data(e, id, ServerResponse_Error("Operation not allowed"))
    ELSE IF e.server.game = None
      THEN send_data(e, id, ServerResponse_Error("No active game"))
    ELSE LET r == ServerGame_action(e.server.game[1], e.server.connections[id][2], command)
             acted == [e EXCEPT !.server.game = Some(r.game)]
         IN  IF r.panic THEN { [acted EXCEPT !.panic = TRUE] }
             ELSE send_data(acted, id,
                            IF r.res = Ok THEN ServerResponse_Ok
                            ELSE ServerResponse_Error(r.res))

\* Server::handle_command
handle_command(e, id, command) ==
    IF id \notin DOMAIN e.server.connections THEN { e }
    ELSE IF e.server.game = None
      THEN send_data(e, id, ServerResponse_Error("No active game"))
    ELSE IF e.server.connections[id][1] = "Player"
      THEN LET r == ServerGame_action(e.server.game[1], e.server.connections[id][2], command)
               acted == [e EXCEPT !.server.game = Some(r.game)]
           IN  IF r.panic THEN { [acted EXCEPT !.panic = TRUE] }
               ELSE send_data(acted, id,
                              IF r.res = Ok THEN ServerResponse_Ok
                              ELSE ServerResponse_Error(r.res))
    ELSE send_data(e, id, ServerResponse_Error("Operation not allowed"))

\* Server::main, the body of "while let Ok(x) = self.incoming_messages.try_recv()"
HandleMessage(e, x) ==
    IF x[1] = "Disconnected"
      THEN { [e EXCEPT !.server.queue = Remove(@, x[2]),
                       !.server.game =
                           IF @ = None THEN None
                           ELSE Some([@[1] EXCEPT !.players = Remove(@, x[2])]),
                       !.server.connections = Remove(@, x[2])] }
    ELSE IF x[3] = Garbage THEN { e }
    ELSE IF x[3][1] = "HandShake" THEN handle_accept(e, x[2], x[3][2], FALSE)
    ELSE handle_command(e, x[2], x[3][2])

\* Server::send_overview is unimplemented!(): the call panics
send_overview(e) == [e EXCEPT !.panic = TRUE]

\* Server::main, a call of self.game.tick() followed by self.send_overview()
TickAndOverview(e) ==
    { IF r.panic THEN [e EXCEPT !.server.game = Some(r.game), !.panic = TRUE]
      ELSE send_overview([e EXCEPT !.server.game = Some(r.game)])
        : r \in ServerGame_tick(e.server.game[1]) }

\* Server::main, "for player in to_readd { self.handle_accept(.., true) }"
RECURSIVE Readd(_, _, _)
Readd(es, players, order) ==
    IF order = << >> THEN es
    ELSE Readd(UNION { handle_accept(e, Head(order),
                           ClientRole_Player(PlayerInfo(players[Head(order)].name)), TRUE)
                       : e \in es },
               players, Tail(order))

\* Server::main, the if / else if chain on self.game that follows the two loops
Lifecycle(e) ==
    LET s == e.server
        waiting == Cardinality(DOMAIN s.queue)
    IN  IF s.game = None /\ s.game_start_ticks_left > 0 /\ waiting >= 2
          THEN { [e EXCEPT !.server.game_start_ticks_left = @ - 1] }
        ELSE IF s.game = None /\ s.game_start_ticks_left = 0 /\ waiting >= 2
          THEN UNION { TickAndOverview(
                          [e EXCEPT !.server.queue = EmptyMap,
                                    !.server.game = Some(ServerGame_new(s.queue, s.game_turns, s.game_id, pos))])
                       : pos \in [DOMAIN s.queue ->
                                     SamplePoints(ServerGame_cols(ServerGame_rows(waiting)),
                                                  ServerGame_rows(waiting))] }
        ELSE IF s.game # None /\ ~Game_finished(s.game[1])
          THEN TickAndOverview(e)
        ELSE IF s.game # None /\ Game_finished(s.game[1])
          THEN UNION { Readd({ [e EXCEPT !.server.game = None,
                                         !.server.game_start_ticks_left = s.game_start_ticks] },
                             s.game[1].players, order)
                       : order \in Orders(DOMAIN s.game[1].players) }
        ELSE { e }

-----------------------------------------------------------------------------
(* The server: the listener thread, the reader threads and the engine thread
   running Server::main in a loop.  The engine is the process's main thread
   (dazzled.rs): once it has panicked the process is gone and no thread takes
   another step. *)

Configs ==
    { [game_start_ticks |-> a, game_turns |-> b] : a \in 0..MaxStartTicks, b \in 0..MaxTurns }

ServerInit ==
    /\ GameIdle /\ CaptureIdle /\ CollectIdle
    /\ server \in { Server_new(config) : config \in Configs }
    /\ pc = "connections"
    /\ readers = {}
    /\ failed = {}
    /\ nmails = 0
    /\ sent = << >>
    /\ handled = NoMessage

\* the listener thread: accept(s) succeeded, sen.send(w)
Listen ==
    /\ pc # "panicked"
    /\ server.seed + server.incoming_connections < MaxConnections
    /\ server' = [server EXCEPT !.incoming_connections = @ + 1]
    /\ UNCHANGED <<gameVars, cap, col, pc, readers, failed, nmails, sent, handled>>

\* a reader thread: read_message() returned Ok(x)
ReaderMail ==
    /\ pc # "panicked" /\ nmails < MaxMails
    /\ \E id \in readers \ failed, msg \in ClientMessages :
          server' = [server EXCEPT !.incoming_messages = Append(@, Mail(id, msg))]
    /\ nmails' = nmails + 1
    /\ UNCHANGED <<gameVars, cap, col, pc, readers, failed, sent, handled>>

\* a reader thread: read_message() returned Err(ConnectionClosed)
ReaderClosed ==
    /\ pc # "panicked"
    /\ \E id \in readers :
          /\ server' = [server EXCEPT !.incoming_messages = Append(@, Disconnected(id))]
          /\ readers' = readers \ {id}
          /\ failed' = failed \ {id}
    /\ UNCHANGED <<gameVars, cap, col, pc, nmails, sent, handled>>

\* Server::main, an iteration of "while let Ok(x) = self.incoming_connections.try_recv()"
MainConnection ==
    /\ pc = "connections" /\ server.incoming_connections > 0
    /\ server' = [server EXCEPT !.incoming_connections = @ - 1,
                                !.connections = Insert(@, server.seed, ConnectionType_Unknown),
                                !.seed = @ + 1]
    /\ readers' = readers \cup {server.seed}
    /\ failed' = failed
    /\ sent' = << >>
    /\ UNCHANGED <<gameVars, cap, col, pc, nmails, handled>>

\* Server::main, incoming_connections.try_recv() found the channel empty
MainConnectionsDone ==
    /\ pc = "connections" /\ server.incoming_connections = 0
    /\ pc' = "messages"
    /\ sent' = << >>
    /\ UNCHANGED <<gameVars, cap, col, server, readers, failed, nmails, handled>>

\* faulty variant of MainMessage: the newest message of the channel is taken
MainMessage_TakesLast ==
    /\ pc = "messages" /\ server.incoming_messages # << >>
    /\ LET n == Len(server.incoming_messages)
           x == server.incoming_messages[n]
       IN  /\ \E e \in HandleMessage([server |-> [server EXCEPT !.incoming_messages =
                                                        SubSeq(@, 1, n - 1)],
                                      sent |-> << >>, panic |-> FALSE], x) :
                 /\ server' = e.server
                 /\ sent' = e.sent
                 /\ pc' = IF e.panic THEN "panicked" ELSE pc
           /\ handled' = [n |-> 1 - handled.n, message |-> x]
    /\ UNCHANGED <<gameVars, cap, col, readers, failed, nmails>>

\* Server::main, an iteration of "while let Ok(x) = self.incoming_messages.try_recv()"
MainMessage ==
    /\ pc = "messages" /\ server.incoming_messages # << >>
    /\ LET x == Head(server.incoming_messages)
       IN  /\ \E e \in HandleMessage([server |-> [server EXCEPT !.incoming_messages = Tail(@)],
                                      sent |-> << >>, panic |-> FALSE], x) :
                 /\ server' = e.server
                 /\ sent' = e.sent
                 /\ pc' = IF e.panic THEN "panicked" ELSE pc
           /\ handled' = [n |-> 1 - handled.n, message |-> x]
    /\ UNCHANGED <<gameVars, cap, col, readers, failed, nmails>>

\* Server::main, incoming_messages.try_recv() found the channel empty
MainMessagesDone ==
    /\ pc = "messages" /\ server.incoming_messages = << >>
    /\ pc' = "lifecycle"
    /\ sent' = << >>
    /\ UNCHANGED <<gameVars, cap, col, server, readers, failed, nmails, handled>>

\* Server::main, from the if / else if chain on self.game to thread::sleep
MainLifecycle ==
    /\ pc = "lifecycle"
    /\ \E e \in Lifecycle([server |-> server, sent |-> << >>, panic |-> FALSE]) :
          /\ server' = e.server
          /\ sent' = e.sent
          /\ pc' = IF e.panic THEN "panicked" ELSE "connections"
    /\ UNCHANGED <<gameVars, cap, col, readers, failed, nmails, handled>>

ServerNext ==
    \/ Listen
    \/ ReaderMail
    \/ ReaderClosed
    \/ MainConnection
    \/ MainConnectionsDone
    \/ MainMessage
    \/ MainMessagesDone
    \/ MainLifecycle

SpecServer == ServerInit /\ [][ServerNext]_vars

-----------------------------------------------------------------------------
(* The server with transports that fail.  A read on a failed transport
   returns an error again, which the reader thread answers with "continue",
   or Err(ConnectionClosed).  Every thread that can take a step is scheduled
   again and again; which result a read returns is not up to the scheduler. *)

\* read_message() on the socket of connection id starts to fail
TransportFails ==
    /\ pc # "panicked"
    /\ \E id \in readers \ failed : failed' = failed \cup {id}
    /\ UNCHANGED <<gameVars, cap, col, server, pc, readers, nmails, sent, handled>>

\* a reader thread: read_message() returned Err(_), not ConnectionClosed: continue
ReaderError ==
    /\ pc # "panicked"
    /\ \E id \in readers \cap failed : TRUE
    /\ UNCHANGED vars

ReaderNext == ServerNext \/ TransportFails \/ ReaderError

\* the steps of the engine thread: dazzled.rs calls server.main() in a loop
EngineNext ==
    \/ MainConnection
    \/ MainConnectionsDone
    \/ MainMessage
    \/ MainMessagesDone
    \/ MainLifecycle

SpecReader == ServerInit /\ [][ReaderNext]_vars /\ WF_vars(EngineNext)

-----------------------------------------------------------------------------
(* Server::handle_accept as a function of the engine's state and its
   arguments, applied once to engine states that Server::main produces
   before a game: connections registered, then handshakes handled *)

ClientRoles ==
    { ClientRole_Viewer } \cup { ClientRole_Player(PlayerInfo(n)) : n \in Names }

\* Server::new followed by n iterations of the loop on incoming_connections
Connected(config, n) ==
    [Server_new(config) EXCEPT !.connections = [id \in 0..(n - 1) |-> ConnectionType_Unknown],
                               !.seed = n]

\* the engine states after one more HandShake of a registered connection was
\* handled and answered
AfterHandShake(S) ==
    UNION { UNION { { e.server : e \in { f \in handle_accept([server |-> s, sent |-> << >>,
                                                             panic |-> FALSE], id, role, FALSE) :
                                           f.server.incoming_messages = << >> } }
                    : id \in DOMAIN s.connections, role \in ClientRoles }
            : s \in S }

AcceptStates ==
    LET S0 == { Connected(config, n) : config \in Configs, n \in 0..MaxConnections }
        S1 == S0 \cup AfterHandShake(S0)
    IN  S1 \cup AfterHandShake(S1)

AcceptInit ==
    /\ GameIdle /\ CaptureIdle /\ CollectIdle
    /\ server \in AcceptStates
    /\ pc = "accept"
    /\ readers = {}
    /\ failed = {}
    /\ nmails = 0
    /\ sent = << >>
    /\ handled = NoMessage

\* self.handle_accept(id, role, not_interactive)
AcceptCall ==
    /\ pc = "accept"
    /\ \E id \in 0..(MaxConnections - 1), role \in ClientRoles, not_interactive \in BOOLEAN :
          /\ \E e \in handle_accept([server |-> server, sent |-> << >>, panic |-> FALSE],
                                    id, role, not_interactive) :
                /\ server' = e.server
                /\ sent' = e.sent
          /\ handled' = [n |-> 1, message |-> <<"Accept", id, role, not_interactive>>]
    /\ pc' = "accepted"
    /\ UNCHANGED <<gameVars, cap, col, readers, failed, nmails>>

AcceptNext == AcceptCall

SpecAccept == AcceptInit /\ [][AcceptNext]_vars

-----------------------------------------------------------------------------
(* The game of game.rs driven through its public functions *)

\* the players a caller hands to Game::new: keys 1..n, each player's id its key
NewPlayers(n) == [id \in 1..n |-> Player(<<"p", id>>, 0, Point(0, 0), id)]

Init == GameIdle /\ CaptureIdle /\ CollectIdle /\ ServerIdle

\* Game::new(players, total_turns, 0)
New ==
    /\ game = None
    /\ \E n \in 0..MaxPlayers, total_turns \in 0..MaxTurns :
         LET players == NewPlayers(n)
             rows == Game_rows(n)
         IN  \E pos \in [DOMAIN players -> SamplePoints(Game_cols(rows), rows)] :
                game' = Some(Game_new(players, total_turns, 0, pos))
    /\ last' = [NoCall EXCEPT !.op = "new"]
    /\ UNCHANGED <<panicked, called, accepted, prior, nops, ticks, cap, col, serverVars>>

\* game.action(id, command)
Action ==
    /\ game # None /\ ~panicked /\ nops < MaxOps
    /\ \E id \in 1..MaxPlayers, command \in ClientCommands :
         LET r == Game_action(game[1], id, command)
         IN  /\ game' = Some(r.game)
             /\ panicked' = r.panic
             /\ last' = [op |-> "action", id |-> id, command |-> command, res |-> r.res]
             /\ called' = called \cup {id}
             /\ accepted' = IF r.res = Ok THEN accepted \cup {id} ELSE accepted
    /\ nops' = nops + 1
    /\ UNCHANGED <<prior, ticks, cap, col, serverVars>>

\* game.tick()
Tick ==
    /\ game # None /\ ~panicked /\ nops < MaxOps /\ nops < MaxTickOps
    /\ \E r \in Game_tick(game[1]) :
         /\ game' = Some(r.game)
         /\ panicked' = r.panic
    /\ last' = [NoCall EXCEPT !.op = "tick"]
    /\ called' = {}
    /\ accepted' = {}
    /\ prior' = accepted
    /\ nops' = nops + 1
    /\ ticks' = ticks + 1
    /\ UNCHANGED <<cap, col, serverVars>>

Next == New \/ Action \/ Tick

Spec == Init /\ [][Next]_vars

-----------------------------------------------------------------------------
(* The Game of server.rs through its own methods, as Server::main and
   Server::handle_command call them on self.game: constructed from a queue
   of at least two players, then acted on and ticked *)

\* Game::new(players, self.game_turns, self.game_id) of server.rs
ServerGameNew ==
    /\ game = None
    /\ \E n \in 2..MaxPlayers, total_turns \in 0..MaxTurns :
         LET players == NewPlayers(n)
             rows == ServerGame_rows(n)
         IN  \E pos \in [DOMAIN players -> SamplePoints(ServerGame_cols(rows), rows)] :
                game' = Some(ServerGame_new(players, total_turns, 0, pos))
    /\ last' = [NoCall EXCEPT !.op = "new"]
    /\ UNCHANGED <<panicked, called, accepted, prior, nops, ticks, cap, col, serverVars>>

\* game.action(user_game_id, command) of server.rs
ServerGameAction ==
    /\ game # None /\ ~panicked /\ nops < MaxOps
    /\ \E id \in 1..MaxPlayers, command \in ClientCommands :
         LET r == ServerGame_action(game[1], id, command)
         IN  /\ game' = Some(r.game)
             /\ panicked' = r.panic
             /\ last' = [op |-> "action", id |-> id, command |-> command, res |-> r.res]
             /\ called' = called \cup {id}
             /\ accepted' = IF r.res = Ok THEN accepted \cup {id} ELSE accepted
    /\ nops' = nops + 1
    /\ UNCHANGED <<prior, ticks, cap, col, serverVars>>

\* game.tick() of server.rs
ServerGameTick ==
    /\ game # None /\ ~panicked /\ nops < MaxOps /\ nops < MaxTickOps
    /\ \E r \in ServerGame_tick(game[1]) :
         /\ game' = Some(r.game)
         /\ panicked' = r.panic
    /\ last' = [NoCall EXCEPT !.op = "tick"]
    /\ called' = {}
    /\ accepted' = {}
    /\ prior' = accepted
    /\ nops' = nops + 1
    /\ ticks' = ticks + 1
    /\ UNCHANGED <<cap, col, serverVars>>

ServerGameNext == ServerGameNew \/ ServerGameAction \/ ServerGameTick

SpecServerGame == Init /\ [][ServerGameNext]_vars

-----------------------------------------------------------------------------
(* Server::main's message loop on an engine that holds a game.  The engine
   state is drawn as the game-start branch leaves it when send_overview
   returns: the queue drained into a game that was ticked once, each player
   the role of one connection.  The player ids are taken to be 1..n, as a
   hash of the names may yield them. *)

\* the games the game-start branch leaves: Game::new on the queue, then tick()
StartedGames ==
    LET players == NewPlayers(CapturePlayers)
        rows == ServerGame_rows(CapturePlayers)
    IN  UNION { { r.game : r \in { o \in ServerGame_tick(
                                        ServerGame_new(players, MaxTurns + 1, 0, pos)) :
                                     ~o.panic } }
                : pos \in [DOMAIN players -> SamplePoints(ServerGame_cols(rows), rows)] }

\* what the readers of the two connections have passed on: at most MaxMails
\* events, each a Disconnected or a Command
EngineEvents ==
    LET ids == 0..(CapturePlayers - 1)
        events == { Disconnected(id) : id \in ids }
                    \cup { Mail(id, Command(c)) : id \in ids, c \in {Nothing, Move("Right")} }
    IN  UNION { [1..n -> events] : n \in 0..MaxMails }

EngineGameInit ==
    /\ GameIdle /\ CaptureIdle /\ CollectIdle
    /\ \E g \in StartedGames, events \in EngineEvents :
          server = [Server_new([game_start_ticks |-> 0, game_turns |-> MaxTurns + 1])
                      EXCEPT !.connections = [id \in 0..(CapturePlayers - 1) |->
                                                 ConnectionType_Player(id + 1)],
                             !.seed = CapturePlayers,
                             !.game_id = 1,
                             !.game_start_ticks_left = 0,
                             !.game = Some(g),
                             !.incoming_messages = events]
    /\ pc = "messages"
    /\ readers = {}
    /\ failed = {}
    /\ nmails = 0
    /\ sent = << >>
    /\ handled = NoMessage

EngineGameNext == MainMessage \/ MainMessagesDone \/ MainLifecycle

SpecEngineGame == EngineGameInit /\ [][EngineGameNext]_vars

-----------------------------------------------------------------------------
(* Properties of the game of game.rs *)

\* the step is a call of action() / of tick()
ActionCall == nops' = nops + 1 /\ last'.op = "action"
TickCall == nops' = nops + 1 /\ last'.op = "tick"

\* no two players of game g stand on the same cell
NoSharedCell(g) ==
    \A a, b \in DOMAIN g.players :
        a # b => g.players[a].position # g.players[b].position

\* C2 as stated: whenever action(id, Move(dir)) returns Ok, no two players of
\* the game share a position after the call.
C2_NoSharedCellAfterMove ==
    (last.op = "action" /\ last.command # Nothing /\ last.res = Ok)
        => NoSharedCell(game[1])

\* C2 amended: whenever action(id, Move(dir)) returns Ok, the moved player
\* shares its position with no other player after the call, and two players
\* that share a position after the call already shared it before the call.
C2_MoveKeepsApart ==
    [][ (ActionCall /\ last'.command # Nothing /\ last'.res = Ok) =>
          LET before == game[1].players
              after == game'[1].players
          IN  /\ \A b \in DOMAIN after \ {last'.id} :
                    after[b].position # after[last'.id].position
              /\ \A a, b \in DOMAIN after :
                    (a # b /\ after[a].position = after[b].position)
                        => before[a].position = before[b].position ]_vars

\* a move was accepted in a game where two other players share a cell
C2_Witness ==
    /\ last.op = "action" /\ last.command # Nothing /\ last.res = Ok
    /\ ~NoSharedCell(game[1])

\* C3: whenever action(id, cmd) returns Err, the whole game state after the
\* call equals the state before it (positions, points, grid, tokens,
\* turns_left and the moved map).
C3_ErrLeavesGame ==
    [][ (ActionCall /\ last'.res \in {AlreadyMoved, MoveRefused}) => game' = game ]_vars

\* a move was refused after moved[id] had been set
C3_Witness == last.op = "action" /\ last.res = MoveRefused

\* C4 as stated: a second action(id, ..) with no tick() since the first
\* returns Err("Already moved"), whatever the first call returned.
C4_SecondCallRejected ==
    [][ (ActionCall /\ last'.id \in called) => last'.res = AlreadyMoved ]_vars

\* C4 amended: if action(id, c1) returned Ok and action(id, c2) is called
\* with no tick() in between, the second call returns Err("Already moved").
C4_SecondCallAfterOkRejected ==
    [][ (ActionCall /\ last'.id \in accepted) => last'.res = AlreadyMoved ]_vars

\* a player whose action was accepted was rejected with "Already moved" on
\* its next call
C4_Witness ==
    /\ last.op = "action" /\ last.res = AlreadyMoved
    /\ last.id \in DOMAIN game[1].players /\ last.id \in accepted

\* C5: after every tick() moved[id] is false for every player of the game,
\* and the first action(id, cmd) after a tick is not rejected with
\* "Already moved".
C5_TickResetsMoved ==
    /\ [](last.op = "tick" => \A id \in DOMAIN game[1].players : ~game[1].moved[id])
    /\ [][ (ActionCall /\ ticks > 0 /\ last'.id \notin called
                /\ last'.id \in DOMAIN game[1].players)
             => last'.res # AlreadyMoved ]_vars

\* a player whose action was accepted before a tick is accepted again as the
\* first call after it
C5_Witness ==
    /\ ticks > 0 /\ last.op = "action" /\ last.res = Ok
    /\ called = {last.id} /\ last.id \in prior

\* C6: in every tick, a player whose position holds a token when the
\* collection loop reaches it ends the tick with strictly more points, and
\* every other player's points are unchanged; also when players share a cell.
\* The loop removes a token as it is collected, so of the players on a cell
\* that holds a token before the tick at least one gains points, and a player
\* that gains nothing there shares the cell with one that does; a player on a
\* cell without a token keeps its points.
C6_CollectRaisesPoints ==
    [][ TickCall =>
          LET before == game[1].players
              after == game'[1].players
          IN  \A p \in DOMAIN before :
                 IF before[p].position \in game[1].tokens
                   THEN \/ after[p].points > before[p].points
                        \/ \E q \in DOMAIN before \ {p} :
                              /\ before[q].position = before[p].position
                              /\ after[q].points > before[q].points
                   ELSE after[p].points = before[p].points ]_vars

\* C8: every tick() decreases turns_left by exactly 1, finished() is true
\* exactly when turns_left is 0, and once finished() is true it stays true.
C8_TurnCounter ==
    [][ (game # None /\ game' # None) =>
          /\ TickCall => game'[1].turns_left = game[1].turns_left - 1
          /\ Game_finished(game[1]) => Game_finished(game'[1]) ]_vars

-----------------------------------------------------------------------------
(* Properties of the constructors *)

\* the grid of g has the size the specification gives for its number of
\* players, and every player stands on a cell of the grid
SpecifiedDimensions(g) ==
    LET N == Cardinality(DOMAIN g.players)
        rows == 8 + N \div 2
        cols == 2 * rows + 1
    IN  /\ Rows(g.grid) = rows
        /\ Cols(g.grid) = cols
        /\ \A k \in DOMAIN g.players :
              /\ 0 <= g.players[k].position.x /\ g.players[k].position.x < cols
              /\ 0 <= g.players[k].position.y /\ g.players[k].position.y < rows

\* C1 for the game of game.rs: right after Game::new from N players the grid
\* has rows = 8 + N div 2 and cols = 2 * rows + 1 and every position is in
\* bounds.
C1_GameDimensions == last.op = "new" => SpecifiedDimensions(game[1])

\* C1 for the game of server.rs: the game the server constructs from its N
\* queued players has rows = 8 + N div 2 and cols = 2 * rows + 1 and every
\* position is in bounds.
C1_ServerGameDimensions == server.game # None => SpecifiedDimensions(server.game[1])

-----------------------------------------------------------------------------
(* Properties of the capture phase *)

Neighbours(p) ==
    { Point(p.x + 1, p.y), Point(p.x - 1, p.y), Point(p.x, p.y + 1), Point(p.x, p.y - 1) }

\* the cells of E that a 4-connected path through E links to R, F being the
\* cells of R found last
RECURSIVE Grow(_, _, _)
Grow(E, R, F) ==
    IF F = {} THEN R
    ELSE LET found == ((UNION { Neighbours(p) : p \in F }) \cap E) \ R
         IN  Grow(E, R \cup found, found)

EmptyCells(grid) ==
    { pt \in { Point(x, y) : x \in DOMAIN grid[0], y \in DOMAIN grid } :
         grid[pt.y][pt.x] = None }

\* the colours of the cells adjacent to region R
AdjacentColours(grid, R) ==
    { grid[q.y][q.x][1] :
        q \in { n \in UNION { Neighbours(p) : p \in R } :
                  /\ n.y \in DOMAIN grid /\ n.x \in DOMAIN grid[0]
                  /\ grid[n.y][n.x] # None } }

(* The reference: every maximal 4-connected region of empty cells that holds
   no cell of the grid's edge and whose adjacent cells have exactly one
   colour c is painted c; every other cell is left as it is. *)
Reference(grid) ==
    LET E == EmptyCells(grid)
        edge == { p \in E : OnEdge(p, Rows(grid), Cols(grid)) }
        open == Grow(E, edge, edge)
    IN  [y \in DOMAIN grid |->
           [x \in DOMAIN grid[y] |->
               IF Point(x, y) \notin E \/ Point(x, y) \in open THEN grid[y][x]
               ELSE LET colours == AdjacentColours(grid, Grow(E, {Point(x, y)}, {Point(x, y)}))
                    IN  IF Cardinality(colours) = 1
                          THEN Some(CHOOSE c \in colours : TRUE)
                          ELSE None]]

\* C7: on every stamped grid the capture phase of tick() yields the grid of
\* the reference: a maximal region of empty cells is painted c iff it holds no
\* edge cell and the colours adjacent to it are exactly {c}, every other
\* region stays empty, and coloured cells are not changed.
C7_CaptureMatchesReference ==
    cap.phase = "captured" => cap.grid = Reference(cap.stamped)

\* the two-cell region (1, 1), (2, 1) was enclosed by colour 2 and painted,
\* while the edge cells stayed empty
C7_Witness ==
    /\ cap.phase = "captured"
    /\ cap.stamped[1][1] = None /\ cap.stamped[1][2] = None
    /\ cap.grid[1][1] = Some(2) /\ cap.grid[1][2] = Some(2)
    /\ cap.grid[0][0] = None

-----------------------------------------------------------------------------
(* Properties of the server's handshake *)

Whitespace == {" ", "\t", "\n", "\r"}

\* str::trim: the name without its leading and trailing whitespace
RECURSIVE Trim(_)
Trim(name) ==
    IF name = << >> THEN name
    ELSE IF Head(name) \in Whitespace THEN Trim(Tail(name))
    ELSE IF name[Len(name)] \in Whitespace THEN Trim(SubSeq(name, 1, Len(name) - 1))
    ELSE name

HasWhitespace(name) == \E i \in 1..Len(name) : name[i] \in Whitespace

\* the step takes a message from incoming_messages and handles it
MessageStep == pc = "messages" /\ handled' # handled

\* x is Mail(id, HandShake(Player(info)))
PlayerHandshake(x) ==
    /\ x # << >> /\ x[1] = "Mail"
    /\ x[3][1] = "HandShake" /\ x[3][2][1] = "Player"

\* the one response the step wrote is an Error sent to connection id
AnsweredWithError(responses, id) ==
    /\ Len(responses) = 1
    /\ responses[1].to = id /\ responses[1].value[1] = "Error"

\* C9: a HandShake(Player(name)) whose trimmed name still contains a space,
\* tab, newline or carriage return is answered with an Error and adds nothing
\* to the queue; every name stored in the queue is trimmed and is stored
\* under the hash of the trimmed name.
C9_HandshakeNameRule ==
    /\ [][ (MessageStep /\ PlayerHandshake(handled'.message)
               /\ HasWhitespace(Trim(handled'.message[3][2][2].name)))
             => /\ AnsweredWithError(sent', handled'.message[2])
                /\ server'.queue = server.queue ]_vars
    /\ [](\A pid \in DOMAIN server.queue :
             /\ server.queue[pid].name = Trim(server.queue[pid].name)
             /\ pid = player_hash(PlayerInfo(Trim(server.queue[pid].name))))

\* x is a HandShake(Player(name)) whose player id is in the queue of s
DuplicateHandshake(x, s) ==
    PlayerHandshake(x) /\ player_hash(x[3][2][2]) \in DOMAIN s.queue

UsernameTaken(id) == [to |-> id, value |-> ServerResponse_Error("Username already taken")]

\* C10 as stated: a HandShake(Player(name)) whose player id is already in the
\* queue is answered with Error("Username already taken"), leaves the queue,
\* the countdown and the game as they were, and the requesting connection
\* remains in role Unknown.
C10_DuplicateLeavesUnknown ==
    [][ (MessageStep /\ DuplicateHandshake(handled'.message, server))
          => LET id == handled'.message[2]
             IN  /\ sent' = << UsernameTaken(id) >>
                 /\ server'.queue = server.queue
                 /\ server'.game_start_ticks_left = server.game_start_ticks_left
                 /\ server'.game = server.game
                 /\ id \in DOMAIN server'.connections
                 /\ server'.connections[id] = ConnectionType_Unknown ]_vars

\* C10 amended: a HandShake(Player(name)) whose player id is already in the
\* queue is answered with Error("Username already taken") if the requesting
\* connection is still registered, and leaves the queue, the countdown, the
\* game and the role of every connection as they were (the requesting
\* connection remains Unknown if it was Unknown).
C10_DuplicateChangesNothing ==
    [][ (MessageStep /\ DuplicateHandshake(handled'.message, server))
          => LET id == handled'.message[2]
             IN  /\ id \in DOMAIN server.connections => sent' = << UsernameTaken(id) >>
                 /\ server'.queue = server.queue
                 /\ server'.game_start_ticks_left = server.game_start_ticks_left
                 /\ server'.game = server.game
                 /\ server'.connections = server.connections ]_vars

\* a connection in role Unknown asked for a name that is in the queue and was
\* told so
C10_Witness ==
    /\ PlayerHandshake(handled.message)
    /\ sent = << UsernameTaken(handled.message[2]) >>
    /\ handled.message[2] \in DOMAIN server.connections
    /\ server.connections[handled.message[2]] = ConnectionType_Unknown
    /\ player_hash(handled.message[3][2][2]) \in DOMAIN server.queue

-----------------------------------------------------------------------------
(* Properties of the engine's game lifecycle *)

\* the step runs the if / else if chain of Server::main
LifecycleStep == pc = "lifecycle" /\ pc' # pc

\* the step constructs the game; the step ticks a game
GameStartStep == LifecycleStep /\ server.game = None /\ server'.game # None
GameTickStep == LifecycleStep /\ server'.game # None

\* common.rs struct Overview, the fields the claims speak of
IsOverview(value) == value[1] = "Overview"
OverviewOf(value) == value[2]

\* the Overviews among the responses a step wrote
Overviews(responses) ==
    { responses[i].value : i \in { j \in 1..Len(responses) : IsOverview(responses[j].value) } }

\* C11: when two players have joined an empty server and the countdown has
\* run out, the engine constructs the game and broadcasts the first Overview,
\* with turns_left = game_turns - 1, the two players and game_id = 0, and
\* goes on running; no step before that one writes an Overview.
C11_FirstOverview ==
    [][ /\ GameStartStep =>
             /\ pc' # "panicked"
             /\ \E v \in Overviews(sent') :
                   /\ OverviewOf(v).turns_left = server.game_turns - 1
                   /\ OverviewOf(v).players = DOMAIN server.queue
                   /\ OverviewOf(v).game_id = 0
        /\ ~GameStartStep => Overviews(sent') = {} ]_vars

\* C12: an engine whose game is active and finished runs the iteration that
\* ends it, and that iteration destroys the game, resets the countdown to
\* game_start_ticks and puts every player of game.players back into the queue
\* under its player id and name.
C12_FinishedGameRequeued ==
    /\ []((server.game # None /\ Game_finished(server.game[1])) => pc # "panicked")
    /\ [][ (LifecycleStep /\ server.game # None /\ Game_finished(server.game[1]))
             => /\ server'.game = None
                /\ server'.game_start_ticks_left = server.game_start_ticks
                /\ \A k \in DOMAIN server.game[1].players :
                      /\ k \in DOMAIN server'.queue
                      /\ server'.queue[k].id = k
                      /\ server'.queue[k].name = server.game[1].players[k].name ]_vars

-----------------------------------------------------------------------------
(* Properties of the collection loop *)

\* the players that find a token when the loop, run in this order on game
\* mid, reaches them: the first of the order on each cell that holds a token
Collectors(mid, order) ==
    { order[i] : i \in { j \in 1..Len(order) :
        /\ mid.players[order[j]].position \in mid.tokens
        /\ \A h \in 1..(j - 1) :
              mid.players[order[h]].position # mid.players[order[j]].position } }

\* C13: in a tick where player p collects a token, the token at p.position
\* is removed, p.points grows by exactly the number of cells coloured p.id
\* after the stamp and the capture of that tick, every such cell is empty
\* afterwards, and the cells of colours that nobody collected are untouched.
C13_CollectCountsAndErases ==
    col.phase = "collected" =>
        LET mid == col.mid
            after == col.game
            who == Collectors(mid, col.order)
        IN  /\ \A p \in who :
                  /\ mid.players[p].position \notin after.tokens
                  /\ after.players[p].points =
                        mid.players[p].points + Cardinality(Coloured(mid.grid, mid.players[p].id))
                  /\ \A pt \in Coloured(mid.grid, mid.players[p].id) :
                        after.grid[pt.y][pt.x] = None
            /\ \A y \in DOMAIN mid.grid : \A x \in DOMAIN mid.grid[y] :
                  (\A p \in who : mid.grid[y][x] # Some(mid.players[p].id))
                      => after.grid[y][x] = mid.grid[y][x]

\* player 1 collected a token in the tick that captured (1, 1) for it: the
\* five cells, the captured one among them, were counted and erased
C13_Witness ==
    /\ col.phase = "collected"
    /\ 1 \in Collectors(col.mid, col.order)
    /\ col.mid.grid[1][1] = Some(1)
    /\ col.game.grid[1][1] = None
    /\ col.game.players[1].points = 5

-----------------------------------------------------------------------------
(* Properties of the engine's message loop *)

\* x is Disconnected(id) for a connection that s holds in role Player
PlayerDisconnected(x, s) ==
    /\ x # << >> /\ x[1] = "Disconnected"
    /\ x[2] \in DOMAIN s.connections
    /\ s.connections[x[2]][1] = "Player"

\* C14: after the engine has processed Disconnected(id) for a connection
\* whose role is Player(pid), pid is not in the queue, pid is not among the
\* players of the active game (if there is one) and id is not in the
\* connection table.
C14_DisconnectedRemovesPlayer ==
    [][ (MessageStep /\ PlayerDisconnected(handled'.message, server))
          => LET id == handled'.message[2]
                 pid == server.connections[id][2]
             IN  /\ pid \notin DOMAIN server'.queue
                 /\ server'.game # None => pid \notin DOMAIN server'.game[1].players
                 /\ id \notin DOMAIN server'.connections ]_vars

\* x is Mail(id, Command(command))
CommandMail(x) == x # << >> /\ x[1] = "Mail" /\ x[3][1] = "Command"

\* the state of the engine apart from the messages waiting in its channel
EngineState(s) == [s EXCEPT !.incoming_messages = << >>]

NoActiveGame(id) == [to |-> id, value |-> ServerResponse_Error("No active game")]

HandShakeMail(x) == x # << >> /\ x[1] = "Mail" /\ x[3][1] = "HandShake"

\* C16: the role of a connection starts as Unknown and changes at most once:
\* a HandShake on a connection whose role is already Viewer or Player neither
\* changes that role nor adds a queue entry.
C16_RoleChangesOnce ==
    /\ [][ \A id \in DOMAIN server'.connections \ DOMAIN server.connections :
              server'.connections[id] = ConnectionType_Unknown ]_vars
    /\ [][ (MessageStep /\ HandShakeMail(handled'.message)
               /\ handled'.message[2] \in DOMAIN server.connections
               /\ server.connections[handled'.message[2]] # ConnectionType_Unknown)
             => /\ server'.connections = server.connections
                /\ server'.queue = server.queue ]_vars

\* the connections that were sent an Overview among the responses, one entry
\* for each Overview written
OverviewRecipients(responses) ==
    [ i \in { j \in 1..Len(responses) : IsOverview(responses[j].value) } |-> responses[i].to ]

\* C17: an engine iteration that ticks the game sends one Overview to every
\* connection in role Viewer and to every connection in role Player(pid) with
\* pid in game.players, to no other connection, and the engine keeps running.
C17_OverviewRecipients ==
    [][ GameTickStep =>
          /\ pc' # "panicked"
          /\ \A id \in DOMAIN server.connections :
                LET role == server.connections[id]
                    due == \/ role = ConnectionType_Viewer
                           \/ /\ role[1] = "Player"
                              /\ role[2] \in DOMAIN server'.game[1].players
                    got == { i \in DOMAIN OverviewRecipients(sent') :
                               OverviewRecipients(sent')[i] = id }
                IN  Cardinality(got) = IF due THEN 1 ELSE 0 ]_vars

\* the Mail events of connection id waiting in the channel, oldest first
MailsOf(channel, id) ==
    LET FromId(m) == m[1] = "Mail" /\ m[2] = id
    IN  SelectSeq(channel, FromId)

\* C18: the engine processes the Mail events of a connection in the order its
\* reader thread put them into the channel, under every interleaving of the
\* threads: a step leaves the waiting Mails of a connection as they are, adds
\* one at the end, or is the engine's step that handles the oldest of them and
\* removes exactly that one; the engine handles no other Mail.
C18_MailOrder ==
    [][ \A id \in 0..(MaxConnections - 1) :
          LET before == MailsOf(server.incoming_messages, id)
              after == MailsOf(server'.incoming_messages, id)
              mine == /\ MessageStep
                      /\ handled'.message[1] = "Mail" /\ handled'.message[2] = id
          IN  IF mine
                THEN /\ before # << >>
                     /\ handled'.message = Head(before)
                     /\ after = Tail(before)
                ELSE \/ after = before
                     \/ /\ ~MessageStep
                        /\ Len(after) = Len(before) + 1
                        /\ SubSeq(after, 1, Len(before)) = before ]_vars

\* the engine has handled a Mail of a connection while a later, different
\* Mail of the same connection waits in the channel
C18_Witness ==
    /\ handled.message # << >> /\ handled.message[1] = "Mail"
    /\ MailsOf(server.incoming_messages, handled.message[2]) # << >>
    /\ Head(MailsOf(server.incoming_messages, handled.message[2])) # handled.message
    /\ pc = "messages"

\* C19: Disconnected(id) is the last event tagged id that the engine
\* receives.  A connection leaves the table only when the engine handles its
\* Disconnected, so the claim says that every event the engine takes from the
\* channel is tagged with a connection that is still in the table.
C19_DisconnectedIsLast ==
    [][ MessageStep => handled'.message[2] \in DOMAIN server.connections ]_vars

\* x is a HandShake(Player(name)) that s accepts: its player id is not in the
\* queue and its connection is in the table
AcceptedHandshake(x, s) ==
    /\ PlayerHandshake(x)
    /\ player_hash(x[3][2][2]) \notin DOMAIN s.queue
    /\ x[2] \in DOMAIN s.connections

-----------------------------------------------------------------------------
(* Properties of Game::action's moves *)

\* the cell one step from position in a direction, on the unbounded plane,
\* with the specification's convention
StepCell(position, direction) ==
    CASE direction = "Up"    -> [x |-> position.x, y |-> position.y - 1]
      [] direction = "Down"  -> [x |-> position.x, y |-> position.y + 1]
      [] direction = "Left"  -> [x |-> position.x - 1, y |-> position.y]
      [] direction = "Right" -> [x |-> position.x + 1, y |-> position.y]

\* the cell is inside the grid
InsideGrid(grid, cell) ==
    /\ 0 <= cell.y /\ cell.y < Rows(grid)
    /\ 0 <= cell.x /\ cell.x < Cols(grid)

\* the positions of the players of g, by player key
PositionsOf(g) == [k \in DOMAIN g.players |-> g.players[k].position]

\* the step calls action(id, ..) for a player of the game with moved[id] = false
FreshAction ==
    /\ ActionCall
    /\ last'.id \in DOMAIN game[1].players
    /\ last'.id \in DOMAIN game[1].moved /\ ~game[1].moved[last'.id]

\* C21: for a player with moved[id] = false, action(id, Move(dir)) returns Ok
\* if and only if the cell one step away in direction dir is inside the grid
\* and is not the position of another player; on Ok the player stands on
\* exactly that cell and nobody else has moved; otherwise the call returns
\* Err("Moved out of grid or in a cell already taken") and all positions are
\* as before.  action(id, Nothing) returns Ok and changes no position.
C21_MoveRule ==
    [][ FreshAction =>
          LET g == game[1]
              id == last'.id
          IN  IF last'.command = Nothing
                THEN last'.res = Ok /\ PositionsOf(game'[1]) = PositionsOf(g)
                ELSE LET cell == StepCell(g.players[id].position, last'.command[2])
                         free == /\ InsideGrid(g.grid, cell)
                                 /\ \A k \in DOMAIN g.players \ {id} :
                                       g.players[k].position # cell
                     IN  IF free
                           THEN /\ last'.res = Ok
                                /\ PositionsOf(game'[1]) = [PositionsOf(g) EXCEPT ![id] = cell]
                           ELSE /\ last'.res = MoveRefused
                                /\ PositionsOf(game'[1]) = PositionsOf(g) ]_vars

\* a move into a cell of the grid on which another player stands was refused
C21_Witness ==
    /\ last.op = "action" /\ last.command # Nothing /\ last.res = MoveRefused
    /\ last.id \in DOMAIN game[1].players
    /\ InsideGrid(game[1].grid, StepCell(game[1].players[last.id].position, last.command[2]))
    /\ \E k \in DOMAIN game[1].players \ {last.id} :
          game[1].players[k].position =
              StepCell(game[1].players[last.id].position, last.command[2])

\* C22: a successful Move changes exactly one coordinate by exactly 1: Up
\* decrements y, Down increments y, Left decrements x, Right increments x.
\* Stated on a Game whichever implementation runs it.
C22_DirectionConvention ==
    [][ (ActionCall /\ last'.command # Nothing /\ last'.res = Ok) =>
          game'[1].players[last'.id].position =
              StepCell(game[1].players[last'.id].position, last'.command[2]) ]_vars

-----------------------------------------------------------------------------
(* Properties of the grid's bounds *)

\* the index sets of the grid: its rows and, for each row, its columns
GridShape(grid) == [y \in DOMAIN grid |-> DOMAIN grid[y]]

\* C23: in every state reachable from Game::new by action() and tick()
\* calls, the grid has the dimensions it was constructed with, every player
\* stands on a cell with 0 <= x < cols and 0 <= y < rows, and every token
\* lies inside the grid.
C23_WithinGrid ==
    /\ [][ (game # None /\ game' # None /\ last'.op # "new")
             => GridShape(game'[1].grid) = GridShape(game[1].grid) ]_vars
    /\ [](game # None =>
            /\ \A k \in DOMAIN game[1].players :
                  InsideGrid(game[1].grid, game[1].players[k].position)
            /\ \A token \in game[1].tokens : InsideGrid(game[1].grid, token))

\* after a tick the game holds a token and a player that has left the corner
\* it was placed on
C23_Witness ==
    /\ game # None /\ last.op = "tick"
    /\ game[1].tokens # {}
    /\ \E k \in DOMAIN game[1].players :
          game[1].players[k].position \notin SamplePoints(game[1].gen_col, game[1].gen_row)

-----------------------------------------------------------------------------
(* Properties of the internal handshake *)

\* the step is a call handle_accept(.., true), as the engine makes for each
\* survivor of a finished game
InternalAccept == pc = "accept" /\ pc' = "accepted" /\ handled'.message[4]

-----------------------------------------------------------------------------
(* Properties of the floods of one tick *)

\* C25: within one tick() every grid cell is added to a flood's to_fill set
\* at most once over all floods of the tick, also when a flood is aborted on
\* the grid's edge: the insertions made are as many as the cells inserted.
C25_FloodedOnce ==
    cap.phase = "captured" => cap.added = Cardinality(cap.visited)

-----------------------------------------------------------------------------
(* Properties of the reader threads *)

\* C26: once the transport of a connection is closed or fails with any read
\* error, its reader eventually enqueues Disconnected(conn_id) and
\* terminates, unless the whole process has ended before; it does not loop
\* forever without reporting.
C26_ReaderReportsFailure ==
    \A id \in 0..(MaxConnections - 1) :
        (id \in failed) ~> (id \notin readers \/ pc = "panicked")

-----------------------------------------------------------------------------
(* Properties of connection ids *)

\* C27: connection ids are assigned in strictly increasing order and never
\* reused, and a Mail(id, text) whose id is not in the connection table
\* changes nothing: the queue, the game, the countdown and the roles of all
\* connections are as before and nothing is written, whether the text is a
\* HandShake or a Command.
C27_StaleMailIgnored ==
    /\ [](\A id \in DOMAIN server.connections : id < server.seed)
    /\ [][ /\ server'.seed >= server.seed
           /\ \A id \in DOMAIN server'.connections \ DOMAIN server.connections :
                 id = server.seed /\ server'.seed = server.seed + 1 ]_vars
    /\ [][ (MessageStep /\ handled'.message[1] = "Mail"
               /\ handled'.message[3] # Garbage
               /\ handled'.message[2] \notin DOMAIN server.connections)
             => /\ EngineState(server') = EngineState(server)
                /\ sent' = << >> ]_vars

\* the engine has handled a HandShake(Player(name)) of a connection that it
\* had removed before, for a name that is not queued
C27_Witness ==
    /\ PlayerHandshake(handled.message)
    /\ handled.message[2] < server.seed
    /\ handled.message[2] \notin DOMAIN server.connections
    /\ player_hash(handled.message[3][2][2]) \notin DOMAIN server.queue

-----------------------------------------------------------------------------
(* Properties of the engine's use of its game *)

\* turns_left of the game that a ticking iteration of the engine calls tick()
\* on: the game it holds, or the one it constructs with game_turns
TickedTurnsLeft ==
    IF server.game = None THEN server.game_turns ELSE server.game[1].turns_left

\* C28: the engine never calls tick() on a game whose turns_left is 0,
\* whatever game_turns >= 0 is configured, so turns_left -= 1 never
\* underflows: the tick leaves turns_left one lower.
C28_NoTickAtZero ==
    [][ GameTickStep =>
          /\ TickedTurnsLeft > 0
          /\ server'.game[1].turns_left = TickedTurnsLeft - 1 ]_vars

HeldPlayerIds ==
    DOMAIN server.queue
        \cup (IF server.game = None THEN {} ELSE DOMAIN server.game[1].players)

\* C30: in every engine state each player id in the queue and each player id
\* of the active game is the role Player(pid) of exactly one connection of
\* the connection table: no player of a disconnected client stays queued or
\* in a game, and no two connections hold the same player id.
C30_PlayersHaveOneConnection ==
    \A pid \in HeldPlayerIds :
        Cardinality({ id \in DOMAIN server.connections :
                        server.connections[id] = ConnectionType_Player(pid) }) = 1

-----------------------------------------------------------------------------
(* Properties of a game's lifetime *)

\* C31: with game_turns >= 1 every game that starts is eventually destroyed
\* by the running engine loop, in an iteration after its last tick that does
\* not tick it: an active game is always held by an engine that is still
\* running, and the iteration that makes the game None finds it finished and
\* has not ticked it.
C31_GameEventuallyDestroyed ==
    /\ []((server.game_turns >= 1 /\ server.game # None) => pc # "panicked")
    /\ [][ (LifecycleStep /\ server.game # None /\ server'.game = None)
             => Game_finished(server.game[1]) ]_vars

====
